---- MODULE Spec2Model ----
(***************************************************************************)
(* A model of the picflow-ui image pipeline: the four library operations   *)
(* (convertImage, compressImage, resizeImage, removeBgFromImage), each     *)
(* stepped callback by callback, and the ImageConverter component's file   *)
(* list that drives them (processFile, processAll, removeFile, clearAll,   *)
(* the cropper).                                                           *)
(*                                                                         *)
(* Conventions.                                                            *)
(*  - A JavaScript value that the code only ever tests for truthiness      *)
(*    (options.width, options.height, options.scale, options.quality) is   *)
(*    an integer, and 0 stands for every falsy value (undefined, 0, NaN,   *)
(*    the empty string): `a || b` is Or(a, b).                             *)
(*  - An optional object (a result, an error, a surface) is a sequence of  *)
(*    length 0 or 1.                                                       *)
(*  - quality is in percent (0.92 is 92).                                  *)
(*  - An error message is the sequence of the pieces the code concatenates *)
(*    (a template literal `A: ${m}` is <<"A: ", m>>).                      *)
(*  - Math.round(x / y) is computed exactly (RoundDiv); the doubles of the *)
(*    code give the same integers on every input the model draws.          *)
(***************************************************************************)
EXTENDS Integers, Sequences, FiniteSets, TLC

(***************************************************************************)
(* Bounds of the model.                                                    *)
(***************************************************************************)
\* natural image dimensions range over 1..MaxNatural (plus the examples)
MaxNatural == 5
\* requested width/height range over 0..MaxRequest (plus the examples)
MaxRequest == 4
\* file items ever added to the component's list
MaxFiles == 1
\* operation invocations in flight at once in the component
MaxCalls == 1
\* Process All invocations in flight at once
MaxRuns == 1
\* removeFile timeouts pending at once
MaxTimers == 1
\* crop requests of the cropper awaiting their blob at once
MaxCrops == 1

(***************************************************************************)
(* Strings.                                                                *)
(***************************************************************************)
\* String.prototype.endsWith
EndsWith(s, suffix) ==
    /\ Len(s) >= Len(suffix)
    /\ SubSeq(s, Len(s) - Len(suffix) + 1, Len(s)) = suffix

\* String.prototype.startsWith
StartsWith(s, prefix) ==
    /\ Len(s) >= Len(prefix)
    /\ SubSeq(s, 1, Len(prefix)) = prefix

\* String.prototype.includes
Includes(s, part) ==
    \E i \in 1..(Len(s) - Len(part) + 1) : SubSeq(s, i, i + Len(part) - 1) = part

LowerChar(c) ==
    CASE c = "A" -> "a" [] c = "B" -> "b" [] c = "C" -> "c" [] c = "D" -> "d"
      [] c = "E" -> "e" [] c = "F" -> "f" [] c = "G" -> "g" [] c = "H" -> "h"
      [] c = "I" -> "i" [] c = "J" -> "j" [] c = "K" -> "k" [] c = "L" -> "l"
      [] c = "M" -> "m" [] c = "N" -> "n" [] c = "O" -> "o" [] c = "P" -> "p"
      [] c = "Q" -> "q" [] c = "R" -> "r" [] c = "S" -> "s" [] c = "T" -> "t"
      [] c = "U" -> "u" [] c = "V" -> "v" [] c = "W" -> "w" [] c = "X" -> "x"
      [] c = "Y" -> "y" [] c = "Z" -> "z" [] OTHER -> c

\* String.prototype.toLowerCase
RECURSIVE toLowerCase(_)
toLowerCase(s) ==
    IF Len(s) = 0 THEN ""
    ELSE LowerChar(SubSeq(s, 1, 1)) \o toLowerCase(SubSeq(s, 2, Len(s)))

\* the index of the last "." of s, 0 when it has none
RECURSIVE LastDot(_, _)
LastDot(s, i) ==
    IF i = 0 THEN 0
    ELSE IF SubSeq(s, i, i) = "." THEN i ELSE LastDot(s, i - 1)

\* the index of the last "." or "/" of s, 0 when it has none
RECURSIVE LastDotOrSlash(_, _)
LastDotOrSlash(s, i) ==
    IF i = 0 THEN 0
    ELSE IF SubSeq(s, i, i) \in {".", "/"} THEN i ELSE LastDotOrSlash(s, i - 1)

\* name.replace(/\.[^.]+$/, repl): the last dot and what follows it, when
\* something follows it; a name with no match is returned unchanged
ReplaceExtension(name, repl) ==
    LET d == LastDot(name, Len(name))
    IN IF d > 0 /\ d < Len(name) THEN SubSeq(name, 1, d - 1) \o repl ELSE name

\* name.replace(/\.[^/.]+$/, repl): as above, the tail holding no "/" either
ReplaceExtensionNoSlash(name, repl) ==
    LET d == LastDotOrSlash(name, Len(name))
    IN IF d > 0 /\ d < Len(name) /\ SubSeq(name, d, d) = "."
       THEN SubSeq(name, 1, d - 1) \o repl ELSE name

\* name.replace(/\.svg$/i, repl) and its like: a literal suffix, any case
ReplaceSuffixIgnoreCase(name, suffix, repl) ==
    IF EndsWith(toLowerCase(name), suffix)
    THEN SubSeq(name, 1, Len(name) - Len(suffix)) \o repl
    ELSE name

\* JavaScript's `a || b` on numbers
Or(a, b) == IF a # 0 THEN a ELSE b

Min(a, b) == IF a <= b THEN a ELSE b

\* Math.round(n / d) for n >= 0, d > 0: nearest integer, halves upwards
RoundDiv(n, d) == (2 * n + d) \div (2 * d)

(***************************************************************************)
(* Pure functions of the utilities.                                        *)
(***************************************************************************)
\* a dispatch that tests the generic raster rule before the specific ones
convertImageDispatch_rasterFirst(file) ==
    LET fileType == toLowerCase(file.type)
        fileName == toLowerCase(file.name)
    IN IF StartsWith(fileType, "image/")
       THEN "convertRasterFormat"
       ELSE IF EndsWith(fileName, ".pdf") \/ fileType = "application/pdf"
       THEN "convertPdfToRaster"
       ELSE IF \/ EndsWith(fileName, ".heic") \/ EndsWith(fileName, ".heif")
               \/ fileType = "image/heic" \/ fileType = "image/heif"
       THEN "convertHeicToRaster"
       ELSE IF fileType = "image/svg+xml" \/ EndsWith(fileName, ".svg")
       THEN "convertSvgToRaster"
       ELSE "throw"

\* convertImage's dispatch: the converter it hands the file to, "throw" when
\* no test matches
convertImageDispatch(file) ==
    LET fileType == toLowerCase(file.type)
        fileName == toLowerCase(file.name)
    IN IF EndsWith(fileName, ".pdf") \/ fileType = "application/pdf"
       THEN "convertPdfToRaster"
       ELSE IF \/ EndsWith(fileName, ".heic") \/ EndsWith(fileName, ".heif")
               \/ fileType = "image/heic" \/ fileType = "image/heif"
       THEN "convertHeicToRaster"
       ELSE IF fileType = "image/svg+xml" \/ EndsWith(fileName, ".svg")
       THEN "convertSvgToRaster"
       ELSE IF StartsWith(fileType, "image/")
       THEN "convertRasterFormat"
       ELSE "throw"

\* a message that drops the declared type
UnsupportedMessage_noType(file) == <<"Unsupported file type: ", "unknown">>

\* the message of convertImage's last line
UnsupportedMessage(file) ==
    LET fileType == toLowerCase(file.type)
    IN <<"Unsupported file type: ", IF fileType # "" THEN fileType ELSE "unknown">>

getSupportedOutputFormats(file) ==
    LET fileType == toLowerCase(file.type)
        fileName == toLowerCase(file.name)
    IN IF EndsWith(fileName, ".pdf") \/ fileType = "application/pdf"
       THEN <<"png", "jpg", "webp">>
       ELSE IF \/ EndsWith(fileName, ".heic") \/ EndsWith(fileName, ".heif")
               \/ fileType = "image/heic" \/ fileType = "image/heif"
       THEN <<"png", "jpg", "webp">>
       ELSE IF fileType = "image/svg+xml" \/ EndsWith(fileName, ".svg")
       THEN <<"png", "jpg", "webp">>
       ELSE IF StartsWith(fileType, "image/")
       THEN <<"png", "jpg", "webp">>
       ELSE <<>>

canCompress(file) ==
    toLowerCase(file.type) \in {"image/jpeg", "image/jpg", "image/png", "image/webp"}

canResize(file) ==
    toLowerCase(file.type) \in {"image/jpeg", "image/jpg", "image/png", "image/webp"}

canRemoveBackground(file) ==
    file.type \in {"image/png", "image/jpeg", "image/jpg", "image/webp"}

\* resizeImage's fallback for a missing options.format
getFormatFromFile(file) ==
    LET type == toLowerCase(file.type)
    IN IF Includes(type, "png") THEN "png"
       ELSE IF Includes(type, "webp") THEN "webp"
       ELSE "jpg"

\* the component's ladder; maxSizeMB in tenths of a megabyte, quality in percent
getCompressionSettings(level) ==
    CASE level = 1 -> [maxSizeMB |-> 50, quality |-> 95]
      [] level = 2 -> [maxSizeMB |-> 30, quality |-> 85]
      [] level = 3 -> [maxSizeMB |-> 20, quality |-> 75]
      [] level = 4 -> [maxSizeMB |-> 10, quality |-> 65]
      [] level = 5 -> [maxSizeMB |-> 5, quality |-> 50]
      [] OTHER -> [maxSizeMB |-> 20, quality |-> 75]

\* the compressor module's advice by file size (bytes), same units
getRecommendedSettings(fileSizeBytes) ==
    IF fileSizeBytes < 1024 * 1024 THEN [maxSizeMB |-> 5, quality |-> 90]
    ELSE IF fileSizeBytes < 5 * 1024 * 1024 THEN [maxSizeMB |-> 10, quality |-> 85]
    ELSE IF fileSizeBytes < 10 * 1024 * 1024 THEN [maxSizeMB |-> 20, quality |-> 80]
    ELSE [maxSizeMB |-> 30, quality |-> 75]

\* Math.round((1 - compressedSize / originalSize) * 100), halves upwards
\* the ratio cut down to a whole number instead of rounded
compressionRatio_truncated(originalSize, compressedSize) ==
    (100 * (originalSize - compressedSize)) \div originalSize

\* Math.round((1 - compressedSize / originalSize) * 100): the whole number
\* nearest to the ratio, the upper one of two equally near
compressionRatio(originalSize, compressedSize) ==
    (2 * 100 * (originalSize - compressedSize) + originalSize) \div (2 * originalSize)

(***************************************************************************)
(* Target dimensions: <<width, height>> of the surface each path makes.    *)
(* options.maintainAspectRatio is "true", "false" or "undefined".          *)
(***************************************************************************)
\* a resize that fits within the box whatever the lock says
resizeImageDims_lockIgnored(W, H, options) ==
    LET w == options.width
        h == options.height
    IN IF w # 0 /\ h = 0 THEN <<w, RoundDiv(w * H, W)>>
       ELSE IF h # 0 /\ w = 0 THEN <<RoundDiv(h * W, H), h>>
       ELSE IF w # 0 /\ h # 0
       THEN IF w * H <= h * W
            THEN <<RoundDiv(W * w, W), RoundDiv(H * w, W)>>
            ELSE <<RoundDiv(W * h, H), RoundDiv(H * h, H)>>
       ELSE <<Or(w, W), Or(h, H)>>

\* a resize that keeps the proportions when the lock is off and one
\* dimension is given
resizeImageDims_unlockedProportional(W, H, options) ==
    LET w == options.width
        h == options.height
    IN IF w # 0 /\ h = 0 THEN <<w, RoundDiv(w * H, W)>>
       ELSE IF h # 0 /\ w = 0
       THEN IF H = 0 THEN <<0, h>> ELSE <<RoundDiv(h * W, H), h>>
       ELSE IF options.maintainAspectRatio # "false" /\ w # 0 /\ h # 0
       THEN IF w * H <= h * W
            THEN <<RoundDiv(W * w, W), RoundDiv(H * w, W)>>
            ELSE <<RoundDiv(W * h, H), RoundDiv(H * h, H)>>
       ELSE <<Or(w, W), Or(h, H)>>

\* resizeImage: the lock is on unless it is false
\* For a natural height H of 0 the aspect ratio W / H is Infinity: a height
\* of w / Infinity rounds to 0, and a width of h * Infinity is Infinity, which
\* canvas.width takes as 0.
resizeImageDims(W, H, options) ==
    LET w == options.width
        h == options.height
    IN IF options.maintainAspectRatio # "false"
       THEN IF w # 0 /\ h = 0 THEN <<w, RoundDiv(w * H, W)>>
            ELSE IF h # 0 /\ w = 0
            THEN IF H = 0 THEN <<0, h>> ELSE <<RoundDiv(h * W, H), h>>
            ELSE IF w # 0 /\ h # 0
            THEN IF w * H <= h * W
                 THEN <<RoundDiv(W * w, W), RoundDiv(H * w, W)>>
                 ELSE <<RoundDiv(W * h, H), RoundDiv(H * h, H)>>
            ELSE <<Or(w, W), Or(h, H)>>
       ELSE <<Or(w, W), Or(h, H)>>

\* a raster convert that doubles the natural size as the vector path does
convertRasterFormatDims_scaled(W, H, options) ==
    <<Or(options.width, W * 2), Or(options.height, H * 2)>>

\* convertRasterFormat: the lock is on only when it is true, and only the
\* one-dimension cases are handled
convertRasterFormatDims(W, H, options) ==
    LET w == options.width
        h == options.height
    IN IF options.maintainAspectRatio = "true" /\ (w # 0 \/ h # 0)
       THEN IF w # 0 /\ h = 0 THEN <<w, RoundDiv(w * H, W)>>
            ELSE IF h # 0 /\ w = 0 THEN <<RoundDiv(h * W, H), h>>
            ELSE <<Or(w, W), Or(h, H)>>
       ELSE <<Or(w, W), Or(h, H)>>

\* convertSvgToRaster: the natural size times the scale, unless given
convertSvgToRasterDims(W, H, options) ==
    LET scale == Or(options.scale, 2)
    IN <<Or(options.width, W * scale), Or(options.height, H * scale)>>

\* convertPdfToRaster: the first page's viewport at the scale
convertPdfToRasterDims(W, H, options) ==
    LET scale == Or(options.scale, 2)
    IN <<W * scale, H * scale>>

(***************************************************************************)
(* One invocation of a library operation.  A call is a record; each        *)
(* operator below is one synchronous stretch of the code (the prefix up to *)
(* the first suspension, or one callback) and returns the call after it.   *)
(*   status   the promise: "pending", "resolved", "rejected"               *)
(*   pc       the callback awaited; "done" once settled; "dead" when an    *)
(*            exception left a callback and nothing is awaited any more    *)
(*   invoked  the external capabilities called so far, in order            *)
(*   surface  the canvas that is encoded: its size and what was painted    *)
(*   temp     convertPdfToRaster's second canvas                           *)
(*   segmented  the segmenter's blob, once removeBgFromImage has it        *)
(*   encode   the request handed to the encoder or encoding collaborator   *)
(*   cause    the failure a lower-level step reported                      *)
(*   tmpUrl   the object URL made for decoding: "none", "live", "revoked"  *)
(*   uncaught the exception that escaped to the event loop                 *)
(***************************************************************************)
NewCall(op, item, file, options) ==
    [op |-> op, fn |-> op, item |-> item, file |-> file, options |-> options,
     pc |-> "start", status |-> "pending", invoked |-> <<>>,
     surface |-> <<>>, temp |-> <<>>, encode |-> <<>>, cause |-> <<>>,
     segmented |-> <<>>, tmpUrl |-> "none", result |-> <<>>, error |-> <<>>,
     uncaught |-> <<>>]

\* reject(new Error(message)) / a throw that reaches the async function's promise
Reject(c, message) ==
    [c EXCEPT !.status = "rejected", !.pc = "done", !.error = <<message>>]

Resolve(c, r) ==
    [c EXCEPT !.status = "resolved", !.pc = "done", !.result = <<r>>]

\* an exception thrown inside an event callback: no one catches it
Escape(c, fault) ==
    [c EXCEPT !.pc = "dead", !.cause = <<fault>>, !.uncaught = <<fault.message>>]

Await(c, capability, pc) ==
    [c EXCEPT !.invoked = Append(@, capability), !.pc = pc]

\* `error instanceof Error ? error.message : 'Unknown error'`
MessageOf(fault) == IF fault.isError THEN fault.message ELSE "Unknown error"

\* a catch block's `throw new Error(`${prefix}${message of the cause}`)`
Rethrow(c, prefix, fault) ==
    [Reject(c, <<prefix, MessageOf(fault)>>) EXCEPT !.cause = <<fault>>]

\* a `throw new Error(text)` of the code itself inside a try block
ThrowInTry(c, prefix, text) == Reject(c, <<prefix, text>>)

\* `options.quality || fallback`; quality is <<>> (undefined) or <<percent>>
QualityOr(quality, fallback) ==
    IF quality = <<>> THEN fallback ELSE Or(quality[1], fallback)

\* the destructuring default `quality = fallback`: for undefined only
QualityDefault(quality, fallback) ==
    IF quality = <<>> THEN fallback ELSE quality[1]

IsJpg(format) == format = "jpg" \/ format = "jpeg"

\* document.createElement('canvas') with width and height set
Canvas(dims) == [width |-> dims[1], height |-> dims[2], ops |-> <<>>]

Paint(canvas, op) == [canvas EXCEPT !.ops = Append(@, op)]

\* canvas.toBlob(callback, type, quality) / a collaborator's encode request
ToBlob(c, type, quality, pc) ==
    [Await(c, "canvas.toBlob", pc) EXCEPT !.encode = <<[type |-> type, quality |-> quality]>>]

\* what the platform's encoder makes of the requested type: a type it does
\* not know is encoded as PNG
EncodedType(type) ==
    IF type \in {"image/png", "image/jpeg", "image/webp"} THEN type ELSE "image/png"

Blob(size, type) == [size |-> size, type |-> type]

\* what an event handler (reader.onerror, img.onerror) is told: an Event,
\* which is no Error and carries no message
EventFault == [isError |-> FALSE, message |-> ""]

\* btoa's exception on a character outside Latin-1
InvalidCharacterError == [isError |-> TRUE, message |-> "InvalidCharacterError"]

(***************************************************************************)
(* convertSvgToRaster                                                      *)
(***************************************************************************)
convertSvgToRaster(c) ==
    Await([c EXCEPT !.fn = "convertSvgToRaster"], "FileReader.readAsText", "svg:read")

\* reader.onload (read) or reader.onerror; onload builds the data URL with
\* btoa, which throws on text that is not Latin-1
convertSvgToRaster_reader(c, read) ==
    IF ~read THEN [Reject(c, <<"Failed to read file">>) EXCEPT !.cause = <<EventFault>>]
    ELSE IF ~c.file.latin1 THEN Escape(c, InvalidCharacterError)
    ELSE Await(c, "Image", "svg:load")

\* img.onload (loaded) or img.onerror
convertSvgToRaster_img(c, loaded, ctxOk) ==
    IF ~loaded THEN [Reject(c, <<"Failed to load SVG">>) EXCEPT !.cause = <<EventFault>>]
    ELSE LET canvas == Canvas(convertSvgToRasterDims(c.file.width, c.file.height, c.options))
             filled == IF IsJpg(c.options.format) THEN Paint(canvas, "fillWhite") ELSE canvas
         IN IF ~ctxOk
            THEN [Reject(c, <<"Failed to get canvas context">>) EXCEPT !.surface = <<canvas>>]
            ELSE ToBlob([c EXCEPT !.surface = <<Paint(filled, "drawImage")>>],
                        "image/" \o c.options.format,
                        QualityOr(c.options.quality, 92), "svg:encode")

\* toBlob's callback: blob is <<>> (null) or <<the blob>>
convertSvgToRaster_blob(c, blob) ==
    IF blob = <<>> THEN Reject(c, <<"Failed to create blob">>)
    ELSE Resolve(c, [blob |-> blob[1], url |-> "blob:result",
                     filename |-> ReplaceSuffixIgnoreCase(c.file.name, ".svg",
                                                          "." \o c.options.format),
                     originalSize |-> c.file.size, newSize |-> blob[1].size,
                     format |-> c.options.format])

(***************************************************************************)
(* convertRasterFormat                                                     *)
(***************************************************************************)
convertRasterFormat(c) ==
    Await([c EXCEPT !.fn = "convertRasterFormat", !.tmpUrl = "live"], "Image", "raster:load")

convertRasterFormat_img(c, loaded, ctxOk) ==
    IF ~loaded
    THEN [Reject(c, <<"Failed to load image">>) EXCEPT !.tmpUrl = "revoked",
                                                         !.cause = <<EventFault>>]
    ELSE LET canvas == Canvas(convertRasterFormatDims(c.file.width, c.file.height, c.options))
             filled == IF IsJpg(c.options.format) THEN Paint(canvas, "fillWhite") ELSE canvas
         IN IF ~ctxOk
            THEN [Reject(c, <<"Failed to get canvas context">>)
                    EXCEPT !.surface = <<canvas>>, !.tmpUrl = "revoked"]
            ELSE ToBlob([c EXCEPT !.surface = <<Paint(filled, "drawImage")>>,
                                  !.tmpUrl = "revoked"],
                        "image/" \o c.options.format,
                        QualityOr(c.options.quality, 92), "raster:encode")

convertRasterFormat_blob(c, blob) ==
    IF blob = <<>> THEN Reject(c, <<"Failed to create blob">>)
    ELSE LET ext == IF c.options.format = "jpeg" THEN "jpg" ELSE c.options.format
         IN Resolve(c, [blob |-> blob[1], url |-> "blob:result",
                        filename |-> ReplaceExtension(c.file.name, "." \o ext),
                        originalSize |-> c.file.size, newSize |-> blob[1].size,
                        format |-> c.options.format])

(***************************************************************************)
(* convertPdfToRaster: every await but the last sits in the try block      *)
(***************************************************************************)
PdfPrefix == "Failed to convert PDF: "

convertPdfToRaster(c) ==
    Await([c EXCEPT !.fn = "convertPdfToRaster"], "file.arrayBuffer", "pdf:arrayBuffer")

\* fault is <<>> (fulfilled) or <<the rejection>>
convertPdfToRaster_arrayBuffer(c, fault) ==
    IF fault # <<>> THEN Rethrow(c, PdfPrefix, fault[1])
    ELSE Await(c, "pdfjs.getDocument", "pdf:getDocument")

convertPdfToRaster_getDocument(c, fault) ==
    IF fault # <<>> THEN Rethrow(c, PdfPrefix, fault[1])
    ELSE Await(c, "pdf.getPage(1)", "pdf:getPage")

convertPdfToRaster_getPage(c, fault, ctxOk) ==
    IF fault # <<>> THEN Rethrow(c, PdfPrefix, fault[1])
    ELSE IF ~ctxOk THEN ThrowInTry(c, PdfPrefix, "Failed to get canvas context")
    ELSE Await([c EXCEPT !.surface =
                   <<Canvas(convertPdfToRasterDims(c.file.width, c.file.height, c.options))>>],
               "page.render", "pdf:render")

\* after the render: the page is on the canvas; for JPG a second canvas is
\* filled white, takes the page's pixels with putImageData, and is drawn
\* back onto the first canvas, which setting its width has just cleared
convertPdfToRaster_render(c, fault, tempCtxOk) ==
    IF fault # <<>> THEN Rethrow(c, PdfPrefix, fault[1])
    ELSE LET rendered == Paint(c.surface[1], "render")
             tempCanvas == Canvas(<<rendered.width, rendered.height>>)
             viaTemp == IsJpg(c.options.format) /\ tempCtxOk
             temp == IF viaTemp
                     THEN <<Paint(Paint(tempCanvas, "fillWhite"), "putImageData")>>
                     ELSE IF IsJpg(c.options.format) THEN <<tempCanvas>> ELSE <<>>
             canvas == IF viaTemp
                       THEN Paint([rendered EXCEPT !.ops = <<>>], "drawImage(temp)")
                       ELSE rendered
         IN ToBlob([c EXCEPT !.surface = <<canvas>>, !.temp = temp],
                   "image/" \o c.options.format,
                   QualityOr(c.options.quality, 92), "pdf:encode")

\* the promise returned from inside the try is not awaited there: its
\* rejection passes the catch block by
convertPdfToRaster_blob(c, blob) ==
    IF blob = <<>> THEN Reject(c, <<"Failed to create blob from PDF">>)
    ELSE Resolve(c, [blob |-> blob[1], url |-> "blob:result",
                     filename |-> ReplaceSuffixIgnoreCase(c.file.name, ".pdf",
                                                          "." \o c.options.format),
                     originalSize |-> c.file.size, newSize |-> blob[1].size,
                     format |-> c.options.format])

(***************************************************************************)
(* convertHeicToRaster                                                     *)
(***************************************************************************)
HeicPrefix == "Failed to convert HEIC: "

convertHeicToRaster(c) ==
    [Await([c EXCEPT !.fn = "convertHeicToRaster"], "heic2any", "heic:wait")
        EXCEPT !.encode = <<[type |-> "image/" \o c.options.format,
                             quality |-> QualityOr(c.options.quality, 92)]>>]

\* blob is what `Array.isArray(b) ? b[0] : b` yields: <<>> for an empty array
convertHeicToRaster_done(c, fault, blob) ==
    IF fault # <<>> THEN Rethrow(c, HeicPrefix, fault[1])
    ELSE IF blob = <<>> THEN ThrowInTry(c, HeicPrefix, "Failed to convert HEIC file")
    ELSE Resolve(c, [blob |-> blob[1], url |-> "blob:result",
                     filename |-> ReplaceSuffixIgnoreCase(c.file.name, ".heic",
                                                          "." \o c.options.format),
                     originalSize |-> c.file.size, newSize |-> blob[1].size,
                     format |-> c.options.format])

\* convertImage: an async function, so its throw is a rejected promise
convertImage(c) ==
    LET callee == convertImageDispatch(c.file)
    IN CASE callee = "convertPdfToRaster" -> convertPdfToRaster(c)
         [] callee = "convertHeicToRaster" -> convertHeicToRaster(c)
         [] callee = "convertSvgToRaster" -> convertSvgToRaster(c)
         [] callee = "convertRasterFormat" -> convertRasterFormat(c)
         [] OTHER -> Reject(c, UnsupportedMessage(c.file))

(***************************************************************************)
(* compressImage                                                           *)
(***************************************************************************)
CompressPrefix == "Failed to compress image: "

\* compressImage always asking for the default quality
compressImage_defaultQuality(c) ==
    [Await(c, "imageCompression", "compress:wait")
        EXCEPT !.encode = <<[maxSizeMB |-> Or(c.options.maxSizeMB, 10),
                             maxWidthOrHeight |-> c.options.maxWidthOrHeight,
                             useWebWorker |-> TRUE,
                             initialQuality |-> 80,
                             preserveExif |-> TRUE]>>]

\* useWebWorker and preserveExif are `!== false` of options the model's
\* callers never set: true
compressImage(c) ==
    [Await(c, "imageCompression", "compress:wait")
        EXCEPT !.encode = <<[maxSizeMB |-> Or(c.options.maxSizeMB, 10),
                             maxWidthOrHeight |-> c.options.maxWidthOrHeight,
                             useWebWorker |-> TRUE,
                             initialQuality |-> QualityOr(c.options.quality, 80),
                             preserveExif |-> TRUE]>>]

\* size is the compressed file's byte size
compressImage_done(c, fault, size) ==
    IF fault # <<>> THEN Rethrow(c, CompressPrefix, fault[1])
    ELSE Resolve(c, [blob |-> Blob(size, c.file.type), url |-> "blob:result",
                     filename |-> c.file.name,
                     originalSize |-> c.file.size, compressedSize |-> size,
                     compressionRatio |-> compressionRatio(c.file.size, size)])

(***************************************************************************)
(* resizeImage                                                             *)
(***************************************************************************)
resizeImage(c) ==
    Await([c EXCEPT !.tmpUrl = "live"], "Image", "resize:load")

\* `options.format || getFormatFromFile(file)`; "" is a missing format
resizeOutputFormat(c) ==
    IF c.options.format # "" THEN c.options.format ELSE getFormatFromFile(c.file)

resizeImage_img(c, loaded, ctxOk) ==
    IF ~loaded
    THEN [Reject(c, <<"Failed to load image">>) EXCEPT !.tmpUrl = "revoked",
                                                         !.cause = <<EventFault>>]
    ELSE LET canvas == Canvas(resizeImageDims(c.file.width, c.file.height, c.options))
             outputFormat == resizeOutputFormat(c)
             filled == IF IsJpg(outputFormat) THEN Paint(canvas, "fillWhite") ELSE canvas
         IN IF ~ctxOk
            THEN [Reject(c, <<"Failed to get canvas context">>)
                    EXCEPT !.surface = <<canvas>>, !.tmpUrl = "revoked"]
            ELSE ToBlob([c EXCEPT !.surface = <<Paint(filled, "drawImage")>>,
                                  !.tmpUrl = "revoked"],
                        "image/" \o outputFormat,
                        QualityOr(c.options.quality, 92), "resize:encode")

\* the callback leaving without a word when there is no blob
resizeImage_blob_silent(c, blob) ==
    IF blob = <<>> THEN [c EXCEPT !.pc = "dead"]
    ELSE LET outputFormat == resizeOutputFormat(c)
             ext == IF outputFormat = "jpeg" THEN "jpg" ELSE outputFormat
             targetWidth == c.surface[1].width
             targetHeight == c.surface[1].height
         IN Resolve(c, [blob |-> blob[1], url |-> "blob:result",
                        filename |-> ReplaceExtension(c.file.name,
                            "_" \o ToString(targetWidth) \o "x" \o ToString(targetHeight)
                                \o "." \o ext),
                        originalSize |-> c.file.size, newSize |-> blob[1].size,
                        originalWidth |-> c.file.width, originalHeight |-> c.file.height,
                        newWidth |-> targetWidth, newHeight |-> targetHeight])

resizeImage_blob(c, blob) ==
    IF blob = <<>> THEN Reject(c, <<"Failed to create blob">>)
    ELSE LET outputFormat == resizeOutputFormat(c)
             ext == IF outputFormat = "jpeg" THEN "jpg" ELSE outputFormat
             targetWidth == c.surface[1].width
             targetHeight == c.surface[1].height
         IN Resolve(c, [blob |-> blob[1], url |-> "blob:result",
                        filename |-> ReplaceExtension(c.file.name,
                            "_" \o ToString(targetWidth) \o "x" \o ToString(targetHeight)
                                \o "." \o ext),
                        originalSize |-> c.file.size, newSize |-> blob[1].size,
                        originalWidth |-> c.file.width, originalHeight |-> c.file.height,
                        newWidth |-> targetWidth, newHeight |-> targetHeight])

(***************************************************************************)
(* removeBgFromImage: one try block around everything                      *)
(***************************************************************************)
RemoveBgPrefix == "Failed to remove background: "

\* `const { format = 'png', quality = 0.95 } = options`
removeBgFormat(c) == IF c.options.format = "" THEN "png" ELSE c.options.format

removeBgQuality(c) == QualityDefault(c.options.quality, 95)

removeBgFromImage(c) == Await(c, "removeBackground", "removebg:wait")

\* the tail with the infix put in place of the extension, as resizeImage does
removeBgFromImage_return_replaced(c, resultBlob) ==
    Resolve(c, [blob |-> resultBlob, url |-> "blob:result",
                filename |-> ReplaceExtension(c.file.name, "_no-bg." \o removeBgFormat(c)),
                originalSize |-> c.file.size, newSize |-> resultBlob.size])

\* the tail of the function: the filename, the URL, the result
removeBgFromImage_return(c, resultBlob) ==
    LET nameWithoutExt == ReplaceExtensionNoSlash(c.file.name, "")
    IN Resolve(c, [blob |-> resultBlob, url |-> "blob:result",
                   filename |-> nameWithoutExt \o "_no-bg." \o removeBgFormat(c),
                   originalSize |-> c.file.size, newSize |-> resultBlob.size])

\* the segmenter's promise settles; blob is its output
removeBgFromImage_segmented(c, fault, blob) ==
    IF fault # <<>> THEN Rethrow(c, RemoveBgPrefix, fault[1])
    ELSE IF removeBgFormat(c) # "png" \/ blob.type # "image/png"
    THEN Await([c EXCEPT !.segmented = <<blob>>, !.tmpUrl = "live"],
               "Image", "removebg:load")
    ELSE removeBgFromImage_return([c EXCEPT !.segmented = <<blob>>], blob)

\* the segmented image loads (or fails to: `img.onerror = reject`, with the
\* Event); the canvas is drawn with no fill, and the URL is revoked only
\* after the draw
removeBgFromImage_img(c, loaded, ctxOk) ==
    IF ~loaded THEN Rethrow(c, RemoveBgPrefix, EventFault)
    ELSE LET canvas == Canvas(<<c.file.width, c.file.height>>)
         IN IF ~ctxOk
            THEN [ThrowInTry(c, RemoveBgPrefix, "Failed to get canvas context")
                    EXCEPT !.surface = <<canvas>>]
            ELSE ToBlob([c EXCEPT !.surface = <<Paint(canvas, "drawImage")>>,
                                  !.tmpUrl = "revoked"],
                        "image/" \o removeBgFormat(c), removeBgQuality(c),
                        "removebg:encode")

removeBgFromImage_blob(c, blob) ==
    IF blob = <<>> THEN ThrowInTry(c, RemoveBgPrefix, "Failed to create blob")
    ELSE removeBgFromImage_return(c, blob[1])

\* the synchronous prefix of each public operation
Start(c) ==
    CASE c.op = "convertImage" -> convertImage(c)
      [] c.op = "compressImage" -> compressImage(c)
      [] c.op = "resizeImage" -> resizeImage(c)
      [] c.op = "removeBgFromImage" -> removeBgFromImage(c)

(***************************************************************************)
(* Inputs.                                                                 *)
(***************************************************************************)
\* a File: its name, declared type and byte size, and what its bytes hold:
\* the natural size a decoder reports, and whether its text is all Latin-1
File(name, type, size, width, height, latin1) ==
    [name |-> name, type |-> type, size |-> size,
     width |-> width, height |-> height, latin1 |-> latin1]

DefaultOptions ==
    [format |-> "", quality |-> <<>>, width |-> 0, height |-> 0,
     maintainAspectRatio |-> "undefined", scale |-> 0,
     maxSizeMB |-> 0, maxWidthOrHeight |-> 0]

Names == {"a.pdf", "a.PDF", "a.heic", "a.heif", "a.svg", "a.png", "a.txt", "a"}

Types == {"application/pdf", "image/heic", "image/heif", "image/svg+xml",
          "image/png", "image/jpeg", "text/plain", ""}

NaturalDims == ((1..MaxNatural) \X (1..MaxNatural)) \cup {<<1000, 500>>}

Requests == ((0..MaxRequest) \X (0..MaxRequest))
                \cup {<<400, 0>>, <<0, 100>>, <<400, 400>>}

Locks == {"true", "false", "undefined"}

\* what a collaborator's promise may reject with: an Error with a message,
\* or a value that is no Error
Faults == {[isError |-> TRUE, message |-> "boom"], [isError |-> FALSE, message |-> ""]}

\* <<>>: the step succeeds
MaybeFault == {<<>>} \cup {<<f>> : f \in Faults}

BlobSizes == {500, 2000}

\* what toBlob hands its callback for a request: null or a blob
MaybeBlob(type) == {<<>>} \cup {<<Blob(n, EncodedType(type))>> : n \in BlobSizes}

\* what toBlob hands the callback of call c: always null for a canvas that
\* has no pixels, its width or its height being 0
ToBlobResults(c) ==
    IF c.surface[1].width = 0 \/ c.surface[1].height = 0 THEN {<<>>}
    ELSE MaybeBlob(c.encode[1].type)

\* every (name, type) pair, through convertImage
DetectInputs ==
    {[op |-> "convertImage",
      file |-> File(n, t, 1000, 2, 1, TRUE),
      options |-> [DefaultOptions EXCEPT !.format = f]] :
        n \in Names, t \in Types, f \in {"png", "jpg"}}

\* every geometry, through the two paths that take width and height
GeometryInputs ==
    {[op |-> o,
      file |-> File("photo.png", "image/png", 1000, d[1], d[2], TRUE),
      options |-> [DefaultOptions EXCEPT !.format = "png", !.width = r[1],
                                         !.height = r[2], !.maintainAspectRatio = l]] :
        o \in {"resizeImage", "convertImage"}, d \in NaturalDims, r \in Requests, l \in Locks}

FormatFiles ==
    {File("photo.png", "image/png", 1000, 4, 2, TRUE),
     File("pic.JPG", "image/jpeg", 1000, 3, 3, TRUE),
     File("logo.svg", "image/svg+xml", 1000, 2, 1, TRUE),
     File("logo.svg", "image/svg+xml", 1000, 2, 1, FALSE),
     File("doc.pdf", "application/pdf", 1000, 2, 3, TRUE),
     File("shot.heic", "image/heic", 1000, 2, 2, TRUE),
     File("notes.txt", "text/plain", 1000, 1, 1, TRUE)}

\* every output format and quality, through every operation
FormatInputs ==
    {[op |-> o, file |-> file,
      options |-> [DefaultOptions EXCEPT !.format = f, !.quality = q]] :
        o \in {"convertImage", "compressImage", "resizeImage", "removeBgFromImage"},
        file \in FormatFiles,
        f \in {"png", "jpg", "jpeg", "webp", ""},
        q \in {<<>>, <<0>>, <<85>>}}

\* raster files by name: with an extension, with two, with none
NameFiles ==
    {File(n, "image/png", 1000, 2, 1, TRUE) : n \in {"photo.png", "archive.tar.png", "photo"}}

\* every such name, through the operations that put an infix into it
NameInputs ==
    {[op |-> o, file |-> file,
      options |-> [DefaultOptions EXCEPT !.format = f, !.width = 400, !.height = 300,
                                         !.maintainAspectRatio = "false"]] :
        o \in {"resizeImage", "removeBgFromImage"},
        file \in NameFiles,
        f \in {"png", "jpg", "jpeg", ""}}

\* a quality below 0 and one above 1 (in hundredths), through every operation
QualityInputs ==
    {[op |-> o, file |-> File("photo.png", "image/png", 1000, 4, 2, TRUE),
      options |-> [DefaultOptions EXCEPT !.format = "jpg", !.quality = <<q>>]] :
        o \in {"convertImage", "compressImage", "resizeImage", "removeBgFromImage"},
        q \in {-10, 150}}

\* an image whose decoder reports a natural height of 0, through resizeImage
ZeroHeightInputs ==
    {[op |-> "resizeImage",
      file |-> File("photo.png", "image/png", 1000, 4, 0, TRUE),
      options |-> [DefaultOptions EXCEPT !.format = "png", !.width = r[1],
                                         !.height = r[2], !.maintainAspectRatio = l]] :
        r \in {<<0, 0>>, <<2, 0>>, <<0, 2>>, <<2, 2>>}, l \in Locks}

\* convertImage's options.format is not optional
LibraryInputs ==
    {i \in DetectInputs \cup GeometryInputs \cup FormatInputs \cup NameInputs
            \cup QualityInputs \cup ZeroHeightInputs :
        i.op = "convertImage" => i.options.format # ""}

(***************************************************************************)
(* The ImageConverter component.  File items are objects: `items` maps an  *)
(* item's id to its fields, and stays reachable through closures after the *)
(* item has left the list `files`.                                         *)
(***************************************************************************)
Modes == {"convert", "compress", "resize", "crop", "remove-bg"}

\* addFiles' filter
Accepted(file) ==
    Len(getSupportedOutputFormats(file)) > 0 \/ canCompress(file) \/ canResize(file)

\* the item addFiles makes of a file
NewItem(id, file, mode) ==
    LET isSvg == file.type = "image/svg+xml" \/ EndsWith(toLowerCase(file.name), ".svg")
        isPdf == EndsWith(toLowerCase(file.name), ".pdf") \/ file.type = "application/pdf"
        recommended == getRecommendedSettings(file.size)
    IN [id |-> id, file |-> file, preview |-> ~isSvg /\ ~isPdf, mode |-> mode,
        outputFormat |-> "jpg", quality |-> 85, compressionLevel |-> 3,
        maxSizeMB |-> Or(recommended.maxSizeMB, 10), maxWidthOrHeight |-> 0,
        resizePreset |-> "Custom", resizeWidth |-> 0, resizeHeight |-> 0,
        maintainAspectRatio |-> TRUE,
        result |-> <<>>, processing |-> FALSE, error |-> <<>>, removing |-> FALSE,
        revoked |-> {}]

\* the operation processFile calls for the item's mode, and its options
processFileOp(item) ==
    CASE item.mode = "compress" -> "compressImage"
      [] item.mode = "resize" -> "resizeImage"
      [] item.mode = "remove-bg" -> "removeBgFromImage"
      [] OTHER -> "convertImage"

processFileOptions(item) ==
    CASE item.mode = "compress" ->
            LET settings == getCompressionSettings(item.compressionLevel)
            IN [DefaultOptions EXCEPT !.maxSizeMB = settings.maxSizeMB,
                                      !.maxWidthOrHeight = item.maxWidthOrHeight,
                                      !.quality = <<settings.quality>>]
      [] item.mode = "resize" ->
            [DefaultOptions EXCEPT !.width = item.resizeWidth,
                                   !.height = item.resizeHeight,
                                   !.maintainAspectRatio =
                                        IF item.maintainAspectRatio THEN "true" ELSE "false",
                                   !.quality = <<item.quality>>,
                                   !.format = item.outputFormat]
      [] item.mode = "remove-bg" ->
            [DefaultOptions EXCEPT !.format = item.outputFormat,
                                   !.quality = <<item.quality>>]
      [] OTHER ->
            [DefaultOptions EXCEPT !.format = item.outputFormat,
                                   !.quality = <<item.quality>>,
                                   !.maintainAspectRatio = "true"]

\* processFile up to its await: the flags, then the operation's own prefix
processFileEnter(item) == [item EXCEPT !.processing = TRUE, !.error = <<>>]

processFileCall(item) ==
    Start(NewCall(processFileOp(item), item.id, item.file, processFileOptions(item)))

\* processFile after its await, the operation having settled as call c:
\* the result or the caught error's message, then `finally`
processFileLeave(item, c) ==
    IF c.status = "resolved"
    THEN [item EXCEPT !.result = c.result, !.processing = FALSE,
                      !.revoked = @ \ {"result"}]
    ELSE [item EXCEPT !.error = c.error, !.processing = FALSE]

\* the smallest call id not in use
FreeCall(calls) == CHOOSE id \in 1..(Cardinality(DOMAIN calls) + 1) :
                      /\ id \notin DOMAIN calls
                      /\ \A j \in 1..(id - 1) : j \in DOMAIN calls

Put(f, key, value) == [k \in DOMAIN f \cup {key} |-> IF k = key THEN value ELSE f[k]]

Drop(f, key) == [k \in DOMAIN f \ {key} |-> f[k]]

\* processAll's loop from the head of `queue` on, in the state w (items,
\* calls, runs): each processFile runs up to its await; the loop goes on at
\* once past one that settled without suspending, and otherwise waits
RECURSIVE processAllLoop(_, _)
processAllLoop(w, queue) ==
    IF queue = <<>> THEN w
    ELSE LET id == Head(queue)
             entered == processFileEnter(w.items[id])
             c == processFileCall(entered)
         IN IF c.status # "pending"
            THEN processAllLoop([w EXCEPT !.items[id] = processFileLeave(entered, c)],
                                Tail(queue))
            ELSE LET call == FreeCall(w.calls)
                 IN [w EXCEPT !.items[id] = entered,
                              !.calls = Put(w.calls, call, c),
                              !.runs = @ \cup {[queue |-> Tail(queue), waiting |-> call]}]

\* an operation's promise settles as c (call id `call`): processFile goes on,
\* and then the processAll loops that were awaiting it
RECURSIVE resumeRuns(_, _, _)
resumeRuns(w, call, awaiting) ==
    IF awaiting = {} THEN w
    ELSE LET r == CHOOSE x \in awaiting : TRUE
         IN resumeRuns(processAllLoop([w EXCEPT !.runs = @ \ {r}], r.queue),
                       call, awaiting \ {r})

processFileResume(w, call, c) ==
    LET left == [w EXCEPT !.items[c.item] = processFileLeave(w.items[c.item], c),
                          !.calls = Drop(w.calls, call)]
    IN resumeRuns(left, call, {r \in w.runs : r.waiting = call})

(***************************************************************************)
(* State.                                                                  *)
(***************************************************************************)
VARIABLES
    calls,         \* the operation invocations not yet consumed, by call id
    files,         \* the component's list: the ids of its items, in order
    items,         \* every item object made so far, by id
    defaultMode,   \* the mode new items get
    cropperModal,  \* <<>> or <<[fileItem, imageUrl]>>: the open cropper
    cropping,      \* the ImageCropper's toBlob requests not yet called back
    timers,        \* removeFile's timeouts not yet fired, oldest first
    runs           \* the processAll loops in flight: [queue, waiting]

vars == <<calls, files, items, defaultMode, cropperModal, cropping, timers, runs>>

component == <<files, defaultMode, cropperModal, cropping, timers>>

Init ==
    /\ calls = <<>>
    /\ files = <<>>
    /\ items = <<>>
    /\ defaultMode = "compress"
    /\ cropperModal = <<>>
    /\ cropping = <<>>
    /\ timers = <<>>
    /\ runs = {}

Finished(c) == c.pc \in {"done", "dead"}

(***************************************************************************)
(* The callbacks of the operations.  Deliver stores what a callback made   *)
(* of call `id`; when that settles the promise of a call processFile       *)
(* awaits, processFile (and a processAll loop behind it) goes on in the    *)
(* same task.                                                              *)
(***************************************************************************)
Deliver(id, c) ==
    /\ IF c.status = "pending" \/ c.item = 0
       THEN /\ calls' = [calls EXCEPT ![id] = c]
            /\ UNCHANGED <<items, runs>>
       ELSE LET w == processFileResume([items |-> items, calls |-> calls, runs |-> runs],
                                       id, c)
            IN /\ calls' = w.calls
               /\ items' = w.items
               /\ runs' = w.runs
    /\ UNCHANGED component

At(id, pc) == id \in DOMAIN calls /\ calls[id].pc = pc

SvgReader(id) ==
    \E read \in BOOLEAN :
        /\ At(id, "svg:read")
        /\ Deliver(id, convertSvgToRaster_reader(calls[id], read))

SvgImage(id) ==
    \E loaded \in BOOLEAN, ctxOk \in BOOLEAN :
        /\ At(id, "svg:load")
        /\ Deliver(id, convertSvgToRaster_img(calls[id], loaded, ctxOk))

SvgBlob(id) ==
    /\ At(id, "svg:encode")
    /\ \E blob \in ToBlobResults(calls[id]) :
          Deliver(id, convertSvgToRaster_blob(calls[id], blob))

RasterImage(id) ==
    \E loaded \in BOOLEAN, ctxOk \in BOOLEAN :
        /\ At(id, "raster:load")
        /\ Deliver(id, convertRasterFormat_img(calls[id], loaded, ctxOk))

RasterBlob(id) ==
    /\ At(id, "raster:encode")
    /\ \E blob \in ToBlobResults(calls[id]) :
          Deliver(id, convertRasterFormat_blob(calls[id], blob))

PdfArrayBuffer(id) ==
    \E fault \in MaybeFault :
        /\ At(id, "pdf:arrayBuffer")
        /\ Deliver(id, convertPdfToRaster_arrayBuffer(calls[id], fault))

PdfGetDocument(id) ==
    \E fault \in MaybeFault :
        /\ At(id, "pdf:getDocument")
        /\ Deliver(id, convertPdfToRaster_getDocument(calls[id], fault))

PdfGetPage(id) ==
    \E fault \in MaybeFault, ctxOk \in BOOLEAN :
        /\ At(id, "pdf:getPage")
        /\ Deliver(id, convertPdfToRaster_getPage(calls[id], fault, ctxOk))

PdfRender(id) ==
    \E fault \in MaybeFault, tempCtxOk \in BOOLEAN :
        /\ At(id, "pdf:render")
        /\ Deliver(id, convertPdfToRaster_render(calls[id], fault, tempCtxOk))

PdfBlob(id) ==
    /\ At(id, "pdf:encode")
    /\ \E blob \in ToBlobResults(calls[id]) :
          Deliver(id, convertPdfToRaster_blob(calls[id], blob))

HeicDone(id) ==
    \E fault \in MaybeFault :
        /\ At(id, "heic:wait")
        /\ \E blob \in MaybeBlob(calls[id].encode[1].type) :
              Deliver(id, convertHeicToRaster_done(calls[id], fault, blob))

\* the byte sizes the compressor's output may have: half the input's, the
\* input's own, half a percent more, twice as much
CompressedSizes == {500, 1000, 1005, 2000}

CompressDone(id) ==
    \E fault \in MaybeFault, size \in CompressedSizes :
        /\ At(id, "compress:wait")
        /\ Deliver(id, compressImage_done(calls[id], fault, size))

ResizeImage(id) ==
    \E loaded \in BOOLEAN, ctxOk \in BOOLEAN :
        /\ At(id, "resize:load")
        /\ Deliver(id, resizeImage_img(calls[id], loaded, ctxOk))

ResizeBlob(id) ==
    /\ At(id, "resize:encode")
    /\ \E blob \in ToBlobResults(calls[id]) :
          Deliver(id, resizeImage_blob(calls[id], blob))

\* the segmenter answers with a PNG, or with something else
RemoveBgSegmented(id) ==
    \E fault \in MaybeFault, size \in BlobSizes,
       type \in {"image/png", "image/webp"} :
        /\ At(id, "removebg:wait")
        /\ Deliver(id, removeBgFromImage_segmented(calls[id], fault, Blob(size, type)))

RemoveBgImage(id) ==
    \E loaded \in BOOLEAN, ctxOk \in BOOLEAN :
        /\ At(id, "removebg:load")
        /\ Deliver(id, removeBgFromImage_img(calls[id], loaded, ctxOk))

RemoveBgBlob(id) ==
    /\ At(id, "removebg:encode")
    /\ \E blob \in ToBlobResults(calls[id]) :
          Deliver(id, removeBgFromImage_blob(calls[id], blob))

\* the callback call `id` awaits
Callback(id) ==
    \/ SvgReader(id) \/ SvgImage(id) \/ SvgBlob(id)
    \/ RasterImage(id) \/ RasterBlob(id)
    \/ PdfArrayBuffer(id) \/ PdfGetDocument(id) \/ PdfGetPage(id)
    \/ PdfRender(id) \/ PdfBlob(id)
    \/ HeicDone(id)
    \/ CompressDone(id)
    \/ ResizeImage(id) \/ ResizeBlob(id)
    \/ RemoveBgSegmented(id) \/ RemoveBgImage(id) \/ RemoveBgBlob(id)

Callbacks ==
    \/ \E id \in DOMAIN calls : SvgReader(id)
    \/ \E id \in DOMAIN calls : SvgImage(id)
    \/ \E id \in DOMAIN calls : SvgBlob(id)
    \/ \E id \in DOMAIN calls : RasterImage(id)
    \/ \E id \in DOMAIN calls : RasterBlob(id)
    \/ \E id \in DOMAIN calls : PdfArrayBuffer(id)
    \/ \E id \in DOMAIN calls : PdfGetDocument(id)
    \/ \E id \in DOMAIN calls : PdfGetPage(id)
    \/ \E id \in DOMAIN calls : PdfRender(id)
    \/ \E id \in DOMAIN calls : PdfBlob(id)
    \/ \E id \in DOMAIN calls : HeicDone(id)
    \/ \E id \in DOMAIN calls : CompressDone(id)
    \/ \E id \in DOMAIN calls : ResizeImage(id)
    \/ \E id \in DOMAIN calls : ResizeBlob(id)
    \/ \E id \in DOMAIN calls : RemoveBgSegmented(id)
    \/ \E id \in DOMAIN calls : RemoveBgImage(id)
    \/ \E id \in DOMAIN calls : RemoveBgBlob(id)

(***************************************************************************)
(* The component's handlers.  generateId's random ids are the items'       *)
(* sequence numbers.  Of an item's controls the mode select and the        *)
(* compression level are modelled; the other option controls (format,      *)
(* quality, size, lock) keep the defaults addFiles gives them.             *)
(***************************************************************************)
\* the files a user drops or picks
UiFiles ==
    {File("photo.png", "image/png", 1000, 2, 1, TRUE),
     File("logo.svg", "image/svg+xml", 1000, 2, 1, TRUE),
     File("logo.svg", "image/svg+xml", 1000, 2, 1, FALSE),
     File("doc.pdf", "application/pdf", 1000, 2, 1, TRUE),
     File("shot.heic", "image/heic", 1000, 2, 1, TRUE),
     File("notes.txt", "text/plain", 1000, 1, 1, TRUE)}

\* one drop or one selection: a file, or two
Batches == {<<f>> : f \in UiFiles} \cup {<<f, g>> : f \in UiFiles, g \in UiFiles}

\* the size of the canvas the cropper hands back
CropSizes == {<<2, 1>>}

InList(i) == \E k \in DOMAIN files : files[k] = i

\* files.findIndex(f => f.id === id), counted from 1
IndexOf(i) == CHOOSE k \in DOMAIN files : files[k] = i

\* files.splice(index, 1), index counted from 1
Splice(list, index) ==
    IF index \in DOMAIN list
    THEN SubSeq(list, 1, index - 1) \o SubSeq(list, index + 1, Len(list))
    ELSE list

allProcessed ==
    /\ Len(files) > 0
    /\ \A k \in DOMAIN files :
          items[files[k]].result # <<>> \/ items[files[k]].error # <<>>

\* the items addFiles makes of the files that pass its filter
RECURSIVE addFilesItems(_, _, _)
addFilesItems(newFiles, id, mode) ==
    IF newFiles = <<>> THEN <<>>
    ELSE IF Accepted(Head(newFiles))
    THEN <<NewItem(id, Head(newFiles), mode)>> \o addFilesItems(Tail(newFiles), id + 1, mode)
    ELSE addFilesItems(Tail(newFiles), id, mode)

\* addFiles with one of `batches`, while no more than maxFiles items are made
addFilesOf(batches, maxFiles) ==
    /\ Len(items) < maxFiles
    /\ \E newFiles \in batches :
          LET fileItems == addFilesItems(newFiles, Len(items) + 1, defaultMode)
          IN /\ Len(items) + Len(fileItems) <= maxFiles
             /\ items' = items \o fileItems
             /\ files' = files \o [k \in 1..Len(fileItems) |-> fileItems[k].id]
    /\ UNCHANGED <<calls, defaultMode, cropperModal, cropping, timers, runs>>

addFiles == addFilesOf(Batches, MaxFiles)

\* the mode buttons of the header
SetDefaultMode ==
    \E m \in Modes :
        /\ defaultMode' = m
        /\ UNCHANGED <<calls, files, items, cropperModal, cropping, timers, runs>>

\* an item's mode select, enabled while it is neither processing nor done
SetModeTo(modes) ==
    \E i \in DOMAIN items, m \in modes :
        /\ InList(i)
        /\ ~items[i].processing /\ items[i].result = <<>>
        /\ items' = [items EXCEPT ![i].mode = m]
        /\ UNCHANGED <<calls, files, defaultMode, cropperModal, cropping, timers, runs>>

SetMode == SetModeTo(Modes)

\* the compression level slider, shown in compress mode and enabled while
\* the item is neither processing nor done
SetCompressionLevel ==
    \E i \in DOMAIN items, level \in 1..5 :
        /\ InList(i)
        /\ items[i].mode = "compress"
        /\ ~items[i].processing /\ items[i].result = <<>>
        /\ items[i].compressionLevel # level
        /\ items' = [items EXCEPT ![i].compressionLevel = level]
        /\ UNCHANGED <<calls, files, defaultMode, cropperModal, cropping, timers, runs>>

\* an item's own process button
processFileWithin(maxCalls) ==
    \E i \in DOMAIN items :
        /\ InList(i)
        /\ items[i].result = <<>> /\ ~items[i].processing /\ items[i].mode # "crop"
        /\ Cardinality(DOMAIN calls) < maxCalls
        /\ LET entered == processFileEnter(items[i])
               c == processFileCall(entered)
           IN IF c.status # "pending"
              THEN /\ items' = [items EXCEPT ![i] = processFileLeave(entered, c)]
                   /\ calls' = calls
              ELSE /\ items' = [items EXCEPT ![i] = entered]
                   /\ calls' = Put(calls, FreeCall(calls), c)
        /\ UNCHANGED runs
        /\ UNCHANGED component

processFile == processFileWithin(MaxCalls)

\* the Process All button, enabled unless allProcessed
processAllWithin(maxRuns, maxCalls) ==
    /\ Len(files) > 0 /\ ~allProcessed
    /\ Cardinality(runs) < maxRuns
    /\ Cardinality(DOMAIN calls) < maxCalls
    /\ LET unprocessed == SelectSeq(files, LAMBDA i :
                              items[i].result = <<>> /\ items[i].error = <<>>)
           w == processAllLoop([items |-> items, calls |-> calls, runs |-> runs],
                               unprocessed)
       IN /\ items' = w.items
          /\ calls' = w.calls
          /\ runs' = w.runs
    /\ UNCHANGED component

processAll == processAllWithin(MaxRuns, MaxCalls)

\* `if (fileItem.preview) URL.revokeObjectURL(fileItem.preview)` and the
\* same for fileItem.result.url: item.revoked holds which of the item's
\* present URLs have been revoked
RevokeUrls(item) ==
    [item EXCEPT !.revoked = @ \cup (IF item.preview THEN {"preview"} ELSE {})
                               \cup (IF item.result # <<>> THEN {"result"} ELSE {})]

\* removeFile: the flag now, the splice in 300 ms at the index found now
removeFile ==
    \E i \in DOMAIN items :
        /\ InList(i)
        /\ Len(timers) < MaxTimers
        /\ items' = [items EXCEPT ![i].removing = TRUE]
        /\ timers' = Append(timers, [fileItem |-> i, index |-> IndexOf(i)])
        /\ UNCHANGED <<calls, files, defaultMode, cropperModal, cropping, runs>>

\* the oldest timeout fires (equal delays fire in the order they were set)
removeFileTimeout ==
    /\ timers # <<>>
    /\ items' = [items EXCEPT ![Head(timers).fileItem] = RevokeUrls(@)]
    /\ files' = Splice(files, Head(timers).index)
    /\ timers' = Tail(timers)
    /\ UNCHANGED <<calls, defaultMode, cropperModal, cropping, runs>>

clearAll ==
    /\ Len(files) > 0
    /\ items' = [i \in DOMAIN items |-> IF InList(i) THEN RevokeUrls(items[i]) ELSE items[i]]
    /\ files' = <<>>
    /\ UNCHANGED <<calls, defaultMode, cropperModal, cropping, timers, runs>>

openCropper ==
    \E i \in DOMAIN items :
        /\ InList(i)
        /\ items[i].result = <<>> /\ ~items[i].processing /\ items[i].mode = "crop"
        /\ cropperModal' = <<[fileItem |-> i,
                              imageUrl |-> IF items[i].preview THEN "preview" ELSE "blob:crop"]>>
        /\ UNCHANGED <<calls, files, items, defaultMode, cropping, timers, runs>>

\* the ImageCropper is unmounted with the modal: what its pending toBlob
\* callbacks emit after that reaches no one
Unmounted(jobs) == [k \in DOMAIN jobs |-> [jobs[k] EXCEPT !.mounted = FALSE]]

closeCropper ==
    /\ cropperModal # <<>>
    /\ cropperModal' = <<>>
    /\ cropping' = Unmounted(cropping)
    /\ UNCHANGED <<calls, files, items, defaultMode, timers, runs>>

\* ImageCropper's Apply: canvas is what cropper.getResult() holds, <<>> when
\* it holds none
handleCrop ==
    /\ cropperModal # <<>>
    /\ Len(cropping) < MaxCrops
    /\ \E canvas \in {<<>>} \cup {<<size>> : size \in CropSizes} :
          cropping' = IF canvas = <<>> THEN cropping
                      ELSE Append(cropping, [mounted |-> TRUE, width |-> canvas[1][1],
                                             height |-> canvas[1][2]])
    /\ UNCHANGED <<calls, files, items, defaultMode, cropperModal, timers, runs>>

\* handleCropResult's result for the open item
cropResult(item, blob, job) ==
    [blob |-> blob, url |-> "blob:result",
     filename |-> ReplaceExtension(item.file.name, "_cropped.png"),
     originalSize |-> item.file.size, newSize |-> blob.size,
     originalWidth |-> 0, originalHeight |-> 0,
     newWidth |-> job.width, newHeight |-> job.height]

\* toBlob's callback in handleCrop, and handleCropResult behind its emit
handleCrop_blob ==
    \E k \in DOMAIN cropping, blob \in {<<>>, <<Blob(500, "image/png")>>} :
        LET job == cropping[k]
            rest == Splice(cropping, k)
        IN IF blob = <<>> \/ ~job.mounted \/ cropperModal = <<>>
           THEN /\ cropping' = rest
                /\ UNCHANGED <<calls, files, items, defaultMode, cropperModal, timers, runs>>
           ELSE LET i == cropperModal[1].fileItem
                IN /\ items' = [items EXCEPT ![i].result = <<cropResult(items[i], blob[1], job)>>,
                                             ![i].revoked = @ \ {"result"}]
                   /\ cropperModal' = <<>>
                   /\ cropping' = Unmounted(rest)
                   /\ UNCHANGED <<calls, files, defaultMode, timers, runs>>

Next ==
    \/ addFiles \/ SetDefaultMode \/ SetMode \/ SetCompressionLevel
    \/ processFile \/ processAll
    \/ removeFile \/ removeFileTimeout \/ clearAll
    \/ openCropper \/ closeCropper \/ handleCrop \/ handleCrop_blob
    \/ Callbacks

Spec == Init /\ [][Next]_vars

(***************************************************************************)
(* The component with two raster files in play and two operations in       *)
(* flight at once: the queue of a Process All against the items' own       *)
(* buttons and the cropper.  The items are compressed or cropped; the      *)
(* header's mode buttons, the level slider and the removals are left       *)
(* alone here.                                                             *)
(***************************************************************************)
QueueFiles == 2
QueueCalls == 2
QueueRuns == 1

\* one drop of one raster file
QueueBatches == {<<File("photo.png", "image/png", 1000, 2, 1, TRUE)>>}

\* the modes the items are put in: an operation's, and the cropper's
QueueModes == {"compress", "crop"}

QueueNext ==
    \/ addFilesOf(QueueBatches, QueueFiles) \/ SetModeTo(QueueModes)
    \/ processFileWithin(QueueCalls) \/ processAllWithin(QueueRuns, QueueCalls)
    \/ openCropper \/ closeCropper \/ handleCrop \/ handleCrop_blob
    \/ \E id \in DOMAIN calls : RasterImage(id)
    \/ \E id \in DOMAIN calls : RasterBlob(id)
    \/ \E id \in DOMAIN calls : CompressDone(id)

QueueSpec == Init /\ [][QueueNext]_vars

(***************************************************************************)
(* The list of two raster files under removals: removeFile and its timer,  *)
(* Clear All and further drops, with the items' compressions in flight.    *)
(***************************************************************************)
ListNext ==
    \/ addFilesOf(QueueBatches, QueueFiles)
    \/ processFileWithin(QueueCalls)
    \/ removeFile \/ removeFileTimeout \/ clearAll
    \/ \E id \in DOMAIN calls : CompressDone(id)

ListSpec == Init /\ [][ListNext]_vars

(***************************************************************************)
(* The library on its own: one operation is invoked on an input, runs to   *)
(* its end, and the caller takes the outcome.                              *)
(***************************************************************************)
Invoke ==
    /\ calls = <<>>
    /\ \E i \in LibraryInputs :
          calls' = <<Start(NewCall(i.op, 0, i.file, i.options))>>
    /\ UNCHANGED <<items, runs>>
    /\ UNCHANGED component

\* the caller takes the settled promise's outcome
Return ==
    /\ calls # <<>>
    /\ \A id \in DOMAIN calls : calls[id].status # "pending"
    /\ calls' = <<>>
    /\ UNCHANGED <<items, runs>>
    /\ UNCHANGED component

\* the file a result's blob makes when it is fed to an operation again: its
\* decoder reports the size of the surface that was encoded
OutputFile(c) ==
    File(c.result[1].filename, c.result[1].blob.type, c.result[1].blob.size,
         c.surface[1].width, c.surface[1].height, TRUE)

\* the output of a raster convert to PNG that was given no width or height
\* is converted again, the first call kept beside the second
Reconvert ==
    /\ Len(calls) = 1
    /\ calls[1].fn = "convertRasterFormat" /\ calls[1].status = "resolved"
    /\ calls[1].options.format = "png"
    /\ calls[1].options.width = 0 /\ calls[1].options.height = 0
    /\ \E f \in {"png", "jpg", "webp"}, l \in Locks :
          calls' = Append(calls,
                      Start(NewCall("convertImage", 0, OutputFile(calls[1]),
                                    [DefaultOptions EXCEPT !.format = f,
                                                           !.maintainAspectRatio = l])))
    /\ UNCHANGED <<items, runs>>
    /\ UNCHANGED component

LibraryNext == Invoke \/ Callbacks \/ Return \/ Reconvert

LibrarySpec == Init /\ [][LibraryNext]_vars

(***************************************************************************)
(* Properties of the library operations (checked under LibrarySpec).       *)
(***************************************************************************)
\* the calls of an operation by its public name
CallsOf(op) == {calls[id] : id \in {k \in DOMAIN calls : calls[k].op = op}}

\* the rules of the detection order, one by one
IsPdfFile(f) ==
    EndsWith(toLowerCase(f.name), ".pdf") \/ toLowerCase(f.type) = "application/pdf"

IsHeicFile(f) ==
    \/ EndsWith(toLowerCase(f.name), ".heic") \/ EndsWith(toLowerCase(f.name), ".heif")
    \/ toLowerCase(f.type) \in {"image/heic", "image/heif"}

IsVectorFile(f) ==
    toLowerCase(f.type) = "image/svg+xml" \/ EndsWith(toLowerCase(f.name), ".svg")

IsRasterTyped(f) == StartsWith(toLowerCase(f.type), "image/")

MatchesNoRule(f) ==
    ~IsPdfFile(f) /\ ~IsHeicFile(f) /\ ~IsVectorFile(f) /\ ~IsRasterTyped(f)

\* C1: convertImage hands every file to the decode path of the first rule it
\* matches, in the order PDF, HEIC, vector, raster; a file matching none is
\* handed to no path.
C1_FirstMatchWins ==
    \A c \in CallsOf("convertImage") :
        c.fn = IF IsPdfFile(c.file) THEN "convertPdfToRaster"
               ELSE IF IsHeicFile(c.file) THEN "convertHeicToRaster"
               ELSE IF IsVectorFile(c.file) THEN "convertSvgToRaster"
               ELSE IF IsRasterTyped(c.file) THEN "convertRasterFormat"
               ELSE "convertImage"

\* a file named a.pdf and declared image/png has gone down the PDF path
C1_Witness ==
    \E c \in CallsOf("convertImage") :
        /\ c.file.name = "a.pdf" /\ c.file.type = "image/png"
        /\ c.fn = "convertPdfToRaster"
        /\ c.invoked # <<>>

\* C2: a convertImage of a file that matches no rule is rejected with the
\* unsupported-type error, whose message carries the file's declared type
\* (the word "unknown" when the file declares none); no decoder has been
\* invoked, no surface made, and there is no result.
C2_UnsupportedIsReported ==
    \A c \in CallsOf("convertImage") :
        MatchesNoRule(c.file) =>
            /\ c.status = "rejected"
            /\ c.error = <<<<"Unsupported file type: ",
                             IF c.file.type = "" THEN "unknown" ELSE c.file.type>>>>
            /\ c.invoked = <<>>
            /\ c.surface = <<>>
            /\ c.result = <<>>

\* a text file has been refused, its declared type in the message
C2_Witness ==
    \E c \in CallsOf("convertImage") :
        /\ c.file.name = "a.txt" /\ c.file.type = "text/plain"
        /\ c.status = "rejected"
        /\ c.error = <<<<"Unsupported file type: ", "text/plain">>>>

\* the size of the surface a call has made
SurfaceSize(c) == <<c.surface[1].width, c.surface[1].height>>

\* the calls that went down a path taking width and height, surface made
Sized(fn) == {c \in CallsOf("convertImage") \cup CallsOf("resizeImage") :
                 c.fn = fn /\ c.surface # <<>>}

\* the target C4 states for a lock that is on, one dimension given at most
LockedTarget(W, H, w, h) ==
    IF w = 0 /\ h = 0 THEN <<W, H>>
    ELSE IF h = 0 THEN <<w, RoundDiv(w * H, W)>>
    ELSE <<RoundDiv(h * W, H), h>>

LockedTargetIn(fn) ==
    \A c \in Sized(fn) :
        (/\ c.options.maintainAspectRatio \in {"true", "undefined"}
         /\ (c.options.width = 0 \/ c.options.height = 0))
        => SurfaceSize(c) = LockedTarget(c.file.width, c.file.height,
                                         c.options.width, c.options.height)

\* the half of C4 about resizeImage
C4_InResizeImage == LockedTargetIn("resizeImage")

\* the half of C4 about convertRasterFormat
C4_InConvertRasterFormat == LockedTargetIn("convertRasterFormat")

\* C4: with the aspect lock true or unspecified, resizeImage and
\* convertRasterFormat both make a surface of the natural size when neither
\* width nor height is given, of (w, round(w*H/W)) when only the width w is
\* given, and of (round(h*W/H), h) when only the height h is given.
C4_LockedTargets == C4_InResizeImage /\ C4_InConvertRasterFormat

\* the fit-within target: the natural size times min(w/W, h/H), rounded
FitWithin(W, H, w, h) ==
    IF w * H <= h * W THEN <<RoundDiv(W * w, W), RoundDiv(H * w, W)>>
    ELSE <<RoundDiv(W * h, H), RoundDiv(H * h, H)>>

FitWithinIn(fn) ==
    \A c \in Sized(fn) :
        (/\ c.options.maintainAspectRatio = "true"
         /\ c.options.width # 0 /\ c.options.height # 0)
        => /\ SurfaceSize(c) = FitWithin(c.file.width, c.file.height,
                                         c.options.width, c.options.height)
           /\ c.surface[1].width <= c.options.width
           /\ c.surface[1].height <= c.options.height

\* the half of C5 about resizeImage
C5_InResizeImage == FitWithinIn("resizeImage")

\* the half of C5 about convertRasterFormat
C5_InConvertRasterFormat == FitWithinIn("convertRasterFormat")

\* C5: with the aspect lock on and both width w and height h given,
\* resizeImage and convertRasterFormat both make a surface of the natural
\* size scaled by min(w/W, h/H) and rounded, no wider than w and no higher
\* than h.
C5_FitWithin == C5_InResizeImage /\ C5_InConvertRasterFormat

\* C6: with the aspect lock false and both width and height given, the
\* surface has exactly the given width and height, whatever the natural size.
C6_VerbatimWhenUnlocked ==
    \A c \in Sized("resizeImage") \cup Sized("convertRasterFormat") :
        (/\ c.options.maintainAspectRatio = "false"
         /\ c.options.width # 0 /\ c.options.height # 0)
        => SurfaceSize(c) = <<c.options.width, c.options.height>>

\* a 1000x500 image has been resized, unlocked, to 400x400
C6_Witness ==
    \E c \in Sized("resizeImage") :
        /\ c.options.maintainAspectRatio = "false"
        /\ <<c.file.width, c.file.height>> = <<1000, 500>>
        /\ <<c.options.width, c.options.height>> = <<400, 400>>
        /\ c.status = "resolved"
        /\ <<c.result[1].newWidth, c.result[1].newHeight>> = <<400, 400>>

\* C9: a call whose lower-level step failed with an Error of message m is
\* rejected with a message made of the operation's prefix and m, and no
\* exception has escaped it.
C9_FailuresAreWrapped ==
    \A id \in DOMAIN calls :
        LET c == calls[id]
        IN (c.cause # <<>> /\ c.cause[1].isError) =>
              /\ c.uncaught = <<>>
              /\ c.status = "rejected"
              /\ Len(c.error[1]) = 2
              /\ c.error[1][2] = c.cause[1].message

\* the format a call encodes to
OutputFormat(c) ==
    CASE c.op = "resizeImage" -> resizeOutputFormat(c)
      [] c.op = "removeBgFromImage" -> removeBgFormat(c)
      [] OTHER -> c.options.format

\* the canvases a call has painted on
Painted(c) == {s \in {c.surface, c.temp} : s # <<>> /\ s[1].ops # <<>>}

\* C10: on every path that draws onto a surface, a call encoding to JPEG has
\* painted a surface white before drawing the source onto it, and a call
\* encoding to PNG or WebP has painted no fill.
C10_WhiteUnderJpegOnly ==
    \A id \in DOMAIN calls :
        LET c == calls[id]
        IN Painted(c) # {} =>
              /\ IsJpg(OutputFormat(c)) =>
                    \E s \in Painted(c) : s[1].ops[1] = "fillWhite" /\ Len(s[1].ops) >= 2
              /\ OutputFormat(c) \in {"png", "webp"} =>
                    \A s \in Painted(c) : \A k \in DOMAIN s[1].ops : s[1].ops[k] # "fillWhite"

(***************************************************************************)
(* Properties of the component (checked under Spec).                       *)
(***************************************************************************)
\* the detection order classifies the file as raster
IsRasterFile(f) ==
    ~IsPdfFile(f) /\ ~IsHeicFile(f) /\ ~IsVectorFile(f) /\ IsRasterTyped(f)

\* C3: a compressImage, resizeImage or removeBgFromImage call on a file that
\* is not raster has been rejected without any decoder or collaborator
\* having been invoked, and has no result.
C3_RasterOnly ==
    \A id \in DOMAIN calls :
        LET c == calls[id]
        IN (/\ c.op \in {"compressImage", "resizeImage", "removeBgFromImage"}
            /\ ~IsRasterFile(c.file))
           => /\ c.status = "rejected"
              /\ c.invoked = <<>>
              /\ c.result = <<>>

\* C7: no invocation is stuck: every pending call has a callback that can
\* still be delivered, and every item whose processing flag is set has such
\* a call, so that processFile can come to clear the flag.
C7_EveryInvocationCanFinish ==
    /\ \A id \in DOMAIN calls :
          calls[id].status = "pending" => ENABLED Callback(id)
    /\ \A i \in DOMAIN items :
          items[i].processing =>
              \E id \in DOMAIN calls : calls[id].item = i /\ ENABLED Callback(id)

ExactlyOneOutcome(item) == (item.result # <<>>) # (item.error # <<>>)

\* C8: every step that finishes a transform of an item (processFile clearing
\* the processing flag, or the cropper's blob callback running for the open
\* item) leaves the item with a result or with an error, and not with
\* neither or both.
C8_FinishLeavesOneOutcome ==
    [][/\ \A i \in DOMAIN items :
             (items[i].processing /\ ~items'[i].processing)
                 => ExactlyOneOutcome(items'[i])
       /\ (/\ cropperModal # <<>>
           /\ Len(cropping') < Len(cropping)
           /\ \E k \in DOMAIN cropping : cropping[k].mounted)
          => ExactlyOneOutcome(items'[cropperModal[1].fileItem])]_vars

\* the media type of an output format
MediaTypeOf(format) ==
    CASE format = "png" -> "image/png"
      [] format \in {"jpg", "jpeg"} -> "image/jpeg"
      [] format = "webp" -> "image/webp"

\* C11: a raster convert to png, jpg or webp asks the encoder for the media
\* type of that format (image/png, image/jpeg, image/webp), and a successful
\* one returns a result of that format with a positive newSize.
C11_EncoderGetsTheFormat ==
    \A c \in CallsOf("convertImage") :
        (c.fn = "convertRasterFormat" /\ c.options.format \in {"png", "jpg", "webp"}) =>
            /\ c.encode # <<>> => c.encode[1].type = MediaTypeOf(c.options.format)
            /\ c.status = "resolved" =>
                  /\ c.result[1].format = c.options.format
                  /\ c.result[1].newSize > 0

\* the output format that names a declared raster type again
FormatOfType(type) ==
    CASE type = "image/png" -> "png"
      [] type = "image/jpeg" -> "jpg"
      [] type = "image/webp" -> "webp"

\* C12: a raster convert given no width and no height makes a surface of the
\* natural size; and when the PNG it returns is converted again, to any
\* format and again with no width and height, the second surface has the
\* width and height of the original file.
C12_RoundTripKeepsTheSize ==
    /\ \A c \in Sized("convertRasterFormat") :
          (c.options.width = 0 /\ c.options.height = 0)
              => SurfaceSize(c) = <<c.file.width, c.file.height>>
    /\ (Len(calls) = 2 /\ calls[2].surface # <<>>)
          => SurfaceSize(calls[2]) = <<calls[1].file.width, calls[1].file.height>>

\* a 3x3 JPEG converted to PNG and back to jpg is 3x3 again
C12_Witness ==
    /\ Len(calls) = 2
    /\ calls[1].file.type = "image/jpeg"
    /\ calls[2].options.format = FormatOfType(calls[1].file.type)
    /\ calls[2].file.name = calls[1].result[1].filename
    /\ calls[2].status = "resolved"
    /\ SurfaceSize(calls[2]) = <<3, 3>>

\* a name without its extension: the last dot and what follows it
Stem(name) == ReplaceExtension(name, "")

\* the extension an output format is written with
ExtensionsOf(format) == IF format = "jpeg" THEN {"jpeg", "jpg"} ELSE {format}

\* C13: on every convert path a successful convertImage names its output by
\* the input name without its extension, then a dot and the extension of the
\* target format.
C13_ConvertFilename ==
    \A c \in CallsOf("convertImage") :
        c.status = "resolved" =>
            \E ext \in ExtensionsOf(c.options.format) :
                c.result[1].filename = Stem(c.file.name) \o "." \o ext

\* C14: a successful resizeImage reports the size of its surface as newWidth
\* and newHeight and names its output by the input name without its
\* extension, then _<newWidth>x<newHeight>, a dot and the output format
\* (jpeg written jpg).
C14_ResizeFilename ==
    \A c \in CallsOf("resizeImage") :
        c.status = "resolved" =>
            LET r == c.result[1]
                format == resizeOutputFormat(c)
                ext == IF format = "jpeg" THEN "jpg" ELSE format
            IN /\ <<r.newWidth, r.newHeight>> = SurfaceSize(c)
               /\ r.filename = Stem(c.file.name) \o "_" \o ToString(r.newWidth) \o "x"
                                  \o ToString(r.newHeight) \o "." \o ext

\* C15: a successful removeBgFromImage names its output by the input name
\* without its extension, then _no-bg, a dot and the output format, for
\* every input name and every format.
C15_RemoveBgFilename ==
    \A c \in CallsOf("removeBgFromImage") :
        c.status = "resolved" =>
            c.result[1].filename = Stem(c.file.name) \o "_no-bg." \o removeBgFormat(c)

\* photo.png to jpg has given photo_no-bg.jpg
C15_Witness ==
    \E c \in CallsOf("removeBgFromImage") :
        /\ c.status = "resolved"
        /\ c.file.name = "photo.png" /\ c.options.format = "jpg"
        /\ c.result[1].filename = "photo_no-bg.jpg"

\* the step in which a crop is delivered to item i: a pending crop is
\* consumed and the item gets its result
CropDelivered(i) ==
    /\ Len(cropping') < Len(cropping)
    /\ i \in DOMAIN items'
    /\ items[i].result = <<>> /\ items'[i].result # <<>>

\* the result's size is that of the canvas of one of the pending crops
CropSizeReported(r) ==
    \E k \in DOMAIN cropping :
        r.newWidth = cropping[k].width /\ r.newHeight = cropping[k].height

\* C16: the result a crop leaves on its item reports the cropped canvas's
\* width and height as newWidth and newHeight, and its filename carries
\* _<width>x<height> just before the extension.
C16_CropFilename ==
    [][\A i \in DOMAIN items :
          CropDelivered(i) =>
              LET r == items'[i].result[1]
              IN /\ CropSizeReported(r)
                 /\ Includes(r.filename, "_" \o ToString(r.newWidth) \o "x"
                                             \o ToString(r.newHeight) \o ".")]_vars

\* the quality in a call's request to its encoder or encoding collaborator,
\* in hundredths
EncoderQuality(c) ==
    IF "initialQuality" \in DOMAIN c.encode[1]
    THEN c.encode[1].initialQuality
    ELSE c.encode[1].quality

\* C17: whatever quality the caller supplies, the quality handed to an
\* encoder or encoding collaborator lies within [0, 1].
C17_QualityInRange ==
    \A id \in DOMAIN calls :
        calls[id].encode # <<>> =>
            EncoderQuality(calls[id]) >= 0 /\ EncoderQuality(calls[id]) <= 100

\* the ladder falls, in quality and in size, from level 1 to level 5
LadderIsMonotonic ==
    \A a, b \in 1..5 :
        a < b => /\ getCompressionSettings(a).quality >= getCompressionSettings(b).quality
                 /\ getCompressionSettings(a).maxSizeMB >= getCompressionSettings(b).maxSizeMB

\* the compressImage calls made for an item that is still being processed
CompressingFor(i) ==
    {c \in CallsOf("compressImage") : c.item = i /\ items[i].processing}

\* the step invokes compressImage as call id: the call is new at its await
CompressInvoked(id) ==
    /\ id \in DOMAIN calls'
    /\ id \notin DOMAIN calls \/ calls'[id] # calls[id]
    /\ calls'[id].op = "compressImage" /\ calls'[id].pc = "compress:wait"

\* C18: the compression ladder is monotonic, and whenever an item is
\* compressed the compressor is asked for the quality and the maximum size
\* of the level the item has at that moment.
C18_LadderIsPassedOn ==
    [][/\ LadderIsMonotonic
       /\ \A id \in DOMAIN calls' :
             (CompressInvoked(id) /\ calls'[id].item \in DOMAIN items) =>
                 LET settings == getCompressionSettings(items[calls'[id].item].compressionLevel)
                 IN /\ calls'[id].encode[1].initialQuality = settings.quality
                    /\ calls'[id].encode[1].maxSizeMB = settings.maxSizeMB]_vars

\* an item at level 5 is being compressed to at most 0.5 MB at quality 0.50
C18_Witness ==
    \E i \in DOMAIN items : \E c \in CompressingFor(i) :
        /\ items[i].compressionLevel = 5
        /\ c.encode[1].initialQuality = 50 /\ c.encode[1].maxSizeMB = 5

\* the compress results: the input's size, the output blob's size, the
\* result record
CompressResults ==
    {[original |-> c.file.size, compressed |-> c.result[1].blob.size, result |-> c.result[1]] :
        c \in {d \in CallsOf("compressImage") : d.status = "resolved"}}

\* r is round((1 - compressed/original) * 100): the ratio lies in
\* [r - 1/2, r + 1/2), and the result's two sizes are the file's and the blob's
RatioIsRounded(x) ==
    LET r == x.result.compressionRatio
    IN /\ x.result.originalSize = x.original
       /\ x.result.compressedSize = x.compressed
       /\ 2 * x.original * r - x.original <= 200 * (x.original - x.compressed)
       /\ 200 * (x.original - x.compressed) < 2 * x.original * r + x.original

\* C19: every compress result's compressionRatio is
\* round((1 - compressedSize/originalSize) * 100) of the input's and the
\* output's byte sizes; it is 0 for equal sizes, at most 100, never positive
\* for a larger output, and negative for one larger by more than half a
\* percent.
C19_CompressionRatio ==
    \A x \in CompressResults :
        LET r == x.result.compressionRatio
        IN /\ RatioIsRounded(x)
           /\ x.compressed = x.original => r = 0
           /\ r <= 100
           /\ x.compressed > x.original => r <= 0
           /\ 200 * (x.compressed - x.original) > x.original => r < 0

\* an output half a percent larger than its input has been reported at 0
C19_Witness ==
    \E x \in CompressResults :
        x.compressed > x.original /\ x.result.compressionRatio = 0

\* C19 as stated: the ratio is negative whenever the output is larger than
\* the input.
C19_NegativeWhenLarger ==
    \A x \in CompressResults :
        LET r == x.result.compressionRatio
        IN /\ RatioIsRounded(x)
           /\ x.compressed = x.original => r = 0
           /\ r <= 100
           /\ x.compressed > x.original => r < 0

\* the successful removeBgFromImage calls
RemovedBackgrounds ==
    {c \in CallsOf("removeBgFromImage") : c.status = "resolved"}

\* the segmenter's blob is the result, and nothing was drawn or encoded
PassedThrough(c) ==
    /\ c.result[1].blob = c.segmented[1]
    /\ c.surface = <<>> /\ c.encode = <<>>

\* the segmented image was drawn onto a surface, which was encoded
Reencoded(c) ==
    /\ c.surface # <<>> /\ c.surface[1].ops = <<"drawImage">>
    /\ c.encode # <<>>

\* C20: removeBgFromImage returns the segmenter's blob as it is, using no
\* surface and no encoder, when PNG is requested and the segmenter made a
\* PNG; when another format is requested it draws the segmented image onto
\* a surface and encodes that in the requested format.
C20_ReencodesWhenNeeded ==
    \A c \in RemovedBackgrounds :
        /\ (removeBgFormat(c) = "png" /\ c.segmented[1].type = "image/png") => PassedThrough(c)
        /\ removeBgFormat(c) # "png" =>
              /\ Reencoded(c)
              /\ c.result[1].blob.type = MediaTypeOf(removeBgFormat(c))

\* the positions at which a call waits for the encoding of its surface
EncodePcs == {"svg:encode", "raster:encode", "pdf:encode", "resize:encode", "removebg:encode"}

\* the call c, waiting there, goes on with what the encoder returns
EncodeReturns(c, blob) ==
    CASE c.pc = "svg:encode" -> convertSvgToRaster_blob(c, blob)
      [] c.pc = "raster:encode" -> convertRasterFormat_blob(c, blob)
      [] c.pc = "pdf:encode" -> convertPdfToRaster_blob(c, blob)
      [] c.pc = "resize:encode" -> resizeImage_blob(c, blob)
      [] c.pc = "removebg:encode" -> removeBgFromImage_blob(c, blob)

\* c has failed for want of a blob, and has no result
EncodingFailed(c) ==
    /\ c.status = "rejected" /\ c.result = <<>> /\ c.uncaught = <<>>
    /\ StartsWith(c.error[1][Len(c.error[1])], "Failed to create blob")

\* C21: wherever a call waits for the encoding of a surface (vector, raster
\* and PDF convert, resize, the re-encoding of remove-background), the encoder
\* returning no blob makes the call fail with an encoding error and no result.
C21_NoBlobFails ==
    \A id \in DOMAIN calls :
        calls[id].pc \in EncodePcs => EncodingFailed(EncodeReturns(calls[id], <<>>))

\* a resizeImage call whose surface was handed to the encoder has failed so
C21_Witness ==
    /\ calls # <<>>
    /\ \E id \in DOMAIN calls :
          /\ calls[id].encode # <<>> /\ calls[id].surface # <<>>
          /\ calls[id].fn = "resizeImage"
          /\ EncodingFailed(calls[id])

\* C22: a resizeImage of an image whose natural height is reported as 0
\* makes no surface, gives no result, and fails once the image has loaded.
C22_ZeroHeightFails ==
    \A c \in CallsOf("resizeImage") :
        c.file.height = 0 =>
            /\ c.surface = <<>> /\ c.result = <<>>
            /\ c.pc # "resize:load" => c.status = "rejected"

\* the first await of each operation processFile may call
FirstAwaits == {"compress:wait", "raster:load", "resize:load", "removebg:wait",
                "svg:read", "pdf:arrayBuffer", "heic:wait"}

\* the step invokes an operation for item i in the course of a Process All:
\* a call for i is new at its first await and a Process All loop has moved
StartedByProcessAll(i) ==
    /\ runs' # runs
    /\ \E id \in DOMAIN calls' :
          /\ calls'[id].item = i /\ calls'[id].pc \in FirstAwaits
          /\ id \notin DOMAIN calls \/ calls'[id] # calls[id]

\* C23: a Process All never starts an item that has a result or an error
\* when its turn comes.
C23_NothingIsRerun ==
    [][\A i \in DOMAIN items :
          StartedByProcessAll(i) =>
              items'[i].result = <<>> /\ items[i].error = <<>>]_vars

\* item i leaves the list in this step
Leaves(i) == InList(i) /\ ~ \E k \in DOMAIN files' : files'[k] = i

\* the step is a Clear All: the list is emptied and no timer has fired
IsClearAll == files' = <<>> /\ timers' = timers

\* C24: an item leaves the list only by a removeFile of its own id or by a
\* Clear All, however the removals' timers fall among clearAll and addFiles.
C24_OnlyTheRemovedLeave ==
    [][\A i \in DOMAIN items : Leaves(i) => items[i].removing \/ IsClearAll]_vars

\* the invocations in flight for item i
InFlightFor(i) == {id \in DOMAIN calls : calls[id].item = i /\ calls[id].status = "pending"}

\* C25: at most one invocation is in flight for an item at any time.
C25_OneInvocationPerItem ==
    \A i \in DOMAIN items : Cardinality(InFlightFor(i)) <= 1

\* C26: no item of the list has a result and an error at once.
C26_ResultOrError ==
    \A k \in DOMAIN files :
        items[files[k]].result = <<>> \/ items[files[k]].error = <<>>

\* the URLs item i holds that have not been revoked
LiveUrls(i) ==
    ((IF items[i].preview THEN {"preview"} ELSE {})
        \cup (IF items[i].result # <<>> THEN {"result"} ELSE {})) \ items[i].revoked

\* C27: an item that is no longer in the list, cleared or removed, holds no
\* preview URL and no result URL that is not revoked.
C27_GoneItemsHoldNoUrl ==
    \A i \in DOMAIN items : ~InList(i) => LiveUrls(i) = {}

\* C28: a call that has settled, with a result or with a failure, has left
\* no object URL it made for decoding unrevoked.
C28_TemporaryUrlsAreRevoked ==
    \A id \in DOMAIN calls :
        calls[id].status # "pending" => calls[id].tmpUrl # "live"

\* the calls of resizeImage on an image with positive natural dimensions
\* and a positive width, a positive height or both requested
PositiveResizes ==
    {c \in Sized("resizeImage") :
        /\ c.file.width > 0 /\ c.file.height > 0
        /\ (c.options.width > 0 \/ c.options.height > 0)}

\* C29: for positive natural dimensions and a positive requested width,
\* height or both, the surface resizeImage makes is at least 1 wide and 1
\* high.
C29_TargetAtLeastOne ==
    \A c \in PositiveResizes : c.surface[1].width >= 1 /\ c.surface[1].height >= 1

\* the calls of resizeImage with the lock false and exactly one of width
\* and height given
UnlockedOneGiven ==
    {c \in Sized("resizeImage") :
        /\ c.options.maintainAspectRatio = "false"
        /\ (c.options.width # 0) # (c.options.height # 0)}

\* C30: in resizeImage with the lock false and exactly one of width and
\* height given, the surface has the given dimension as given and the
\* natural size in the other one.
C30_OneGivenOtherNatural ==
    \A c \in UnlockedOneGiven :
        SurfaceSize(c) = IF c.options.width # 0
                         THEN <<c.options.width, c.file.height>>
                         ELSE <<c.file.width, c.options.height>>

\* a 1000x500 image has been resized, unlocked, with only a width of 400
\* given, and has come out 400x500
C30_Witness ==
    \E c \in UnlockedOneGiven :
        /\ <<c.file.width, c.file.height>> = <<1000, 500>>
        /\ <<c.options.width, c.options.height>> = <<400, 0>>
        /\ c.status = "resolved"
        /\ <<c.result[1].newWidth, c.result[1].newHeight>> = <<400, 500>>

====
